---- MODULE Spec2Model ----
(***************************************************************************)
(* ATL Happy Hour: the filter controls, the visibility predicate, the CSV  *)
(* load and the views that follow the filter (src/js/main.js), the         *)
(* portrait/landscape revision (src/unnamed/part_005) and the table        *)
(* revision's display logic (src/unnamed/part_004).                        *)
(*                                                                         *)
(* Strings are sequences of one-character strings, so that toLowerCase and *)
(* trim are computed and not assumed.  A field a row does not have is the  *)
(* value Undefined.                                                        *)
(***************************************************************************)
EXTENDS Integers, Sequences, FiniteSets, TLC

VARIABLES
  today,            \* new Date().getDay(): 0 = Sunday .. 6 = Saturday
  checked,          \* #happening-now-toggle .checked
  active,           \* data-day of the #day-filter buttons that carry class 'active'
  innerWidth,       \* window.innerWidth
  innerHeight,      \* window.innerHeight (read by part_005 only)
  load,             \* Papa.parse: "pending", "complete" or "error"
  allRestaurants,   \* the global array of rows, each with its id
  cards,            \* desktop cards of #venue-container: id -> style.display
  sections,         \* neighborhood sections: <<[key, members, display]>>
  slidesData,       \* the carousel's slide list (rows)
  currentSlideIndex,
  swipeListeners,   \* the touch listeners are attached to #carousel-slides
  markerMap,        \* id -> marker, or NoMarker
  geocoding,        \* id -> number of geocode requests in flight
  lastEvent,        \* the last load, toggle, click or change of day
  out               \* result of the last evaluation of a pure function

vars == <<today, checked, active, innerWidth, innerHeight, load, allRestaurants,
          cards, sections, slidesData, currentSlideIndex, swipeListeners, markerMap,
          geocoding,
          lastEvent, out>>

(***************************************************************************)
(* Bounds of the model.                                                    *)
(***************************************************************************)
\* rows of a CSV file
MaxRows == 2
\* weekday fields of an evaluated record that are present in the row
MaxSetFields == 2
\* geocode requests in flight for one id
MaxPending == 2
\* weekday buttons active at once
MaxActive == 2

\* rows of a parsed file whose load is examined on its own
MaxFileLen == 3

(***************************************************************************)
(* Strings.                                                                *)
(***************************************************************************)
Undefined == <<"undefined">>

\* String.prototype.toLowerCase on one character
LowerChar(c) ==
  CASE c = "Y" -> "y"
    [] c = "E" -> "e"
    [] c = "S" -> "s"
    [] c = "N" -> "n"
    [] c = "O" -> "o"
    [] c = "A" -> "a"
    [] c = "B" -> "b"
    [] OTHER -> c

toLowerCase(s) == [i \in 1..Len(s) |-> LowerChar(s[i])]

RECURSIVE trimStart(_)
trimStart(s) ==
  IF s # <<>> /\ Head(s) = " " THEN trimStart(Tail(s)) ELSE s

RECURSIVE trimEnd(_)
trimEnd(s) ==
  IF s # <<>> /\ s[Len(s)] = " " THEN trimEnd(SubSeq(s, 1, Len(s) - 1)) ELSE s

\* String.prototype.trim
trim(s) == trimEnd(trimStart(s))

\* JavaScript truthiness of a field: undefined and '' are falsy
Truthy(v) == v # Undefined /\ v # <<>>

\* restaurant[col]
Get(row, col) == IF col \in DOMAIN row THEN row[col] ELSE Undefined

yes == <<"y", "e", "s">>

(***************************************************************************)
(* The filter controls.                                                    *)
(***************************************************************************)
\* the `days` array of isRestaurantVisible and applyFilters (0-based there)
days == <<"sun", "mon", "tue", "wed", "thu", "fri", "sat">>

\* the buttons of #day-filter in document order
dayButtons == <<"all", "mon", "tue", "wed", "thu", "fri">>

Weekdays == {"mon", "tue", "wed", "thu", "fri"}

\* dayMapping[todayIndex]: undefined outside 1..5
dayMapping(todayIndex) ==
  IF todayIndex \in 1..5 THEN days[todayIndex + 1] ELSE "undefined"

getCsvColumn(day) ==
  CASE day = "mon" -> "Mon"
    [] day = "tue" -> "Tue"
    [] day = "wed" -> "Wed"
    [] day = "thu" -> "Thu"
    [] day = "fri" -> "Fri"
    [] OTHER -> day

\* the active weekday buttons in document order, the "all" button ignored
getActiveDayFilters(act) ==
  SelectSeq(dayButtons, LAMBDA b : b \in act /\ b # "all")

\* Mutant of someDayYes: any non-empty value of the column counts as a deal.
someDayYes_anyText(restaurant, filterDays) ==
  \E i \in 1..Len(filterDays) :
    Truthy(Get(restaurant, getCsvColumn(filterDays[i])))

\* filterDays.some(day => restaurant[col] && restaurant[col].toLowerCase() === 'yes')
someDayYes(restaurant, filterDays) ==
  \E i \in 1..Len(filterDays) :
    LET col == getCsvColumn(filterDays[i]) IN
      /\ Truthy(Get(restaurant, col))
      /\ toLowerCase(Get(restaurant, col)) = yes

\* Mutant of isRestaurantVisible: Saturday taken for a weekday.
isRestaurantVisible_saturday(restaurant, happeningNow, act, todayIndex) ==
  LET activeDays == getActiveDayFilters(act)
      filterDays ==
        IF happeningNow /\ todayIndex >= 1 /\ todayIndex <= 6
          THEN <<days[todayIndex + 1]>>
          ELSE IF Len(activeDays) > 0 THEN activeDays ELSE <<>>
  IN  IF Len(filterDays) > 0 THEN someDayYes(restaurant, filterDays) ELSE TRUE

isRestaurantVisible(restaurant, happeningNow, act, todayIndex) ==
  LET activeDays == getActiveDayFilters(act)
      filterDays ==
        IF happeningNow /\ todayIndex >= 1 /\ todayIndex <= 5
          THEN <<days[todayIndex + 1]>>
          ELSE IF Len(activeDays) > 0 THEN activeDays ELSE <<>>
  IN  IF Len(filterDays) > 0 THEN someDayYes(restaurant, filterDays) ELSE TRUE

(***************************************************************************)
(* The table revision (part_004): what a row displays and what its         *)
(* data-deals attribute holds.                                             *)
(***************************************************************************)
weekdayKeys == <<"Mon", "Tue", "Wed", "Thu", "Fri">>

\* the day numbers joined into data-deals, as the list they are split back into
dataDeals(row) ==
  LET keep(i) == Truthy(Get(row, weekdayKeys[i]))
                   /\ toLowerCase(Get(row, weekdayKeys[i])) = yes
  IN  SelectSeq(<<1, 2, 3, 4, 5>>, keep)

\* the content of the day cell of `row` for column `day`
dayCell(row, day) ==
  IF Truthy(Get(row, day)) /\ toLowerCase(Get(row, day)) = yes
    THEN <<"checkmark">>
    ELSE IF Truthy(Get(row, day)) /\ trim(Get(row, day)) # <<>>
      THEN Get(row, day)
      ELSE <<>>

\* filterRows: whether a row with data-deals `deals` is displayed
rowDisplayed(deals, happeningNow, todayIndex) ==
  LET currentDay == IF todayIndex = 0 \/ todayIndex = 6 THEN -1 ELSE todayIndex IN
    IF happeningNow /\ currentDay # -1
      THEN \E i \in 1..Len(deals) : deals[i] = currentDay
      ELSE TRUE

(***************************************************************************)
(* Rows of the CSV file.                                                   *)
(***************************************************************************)
\* A MapsURL cell: whether the row has one, whether new URL() accepts it, and
\* its q parameter (Undefined when it has none).
UrlWithAddress == [given |-> TRUE, parses |-> TRUE, q |-> <<"a">>]
UrlWithoutQ == [given |-> TRUE, parses |-> TRUE, q |-> Undefined]
UrlUnparsable == [given |-> TRUE, parses |-> FALSE, q |-> Undefined]
UrlAbsent == [given |-> FALSE, parses |-> FALSE, q |-> Undefined]

Row1 ==
  [Neighborhood |-> <<"b">>, MapsURL |-> UrlWithoutQ,
   Tue |-> <<"Y", "E", "S">>, Fri |-> yes]
Row2 ==
  [Neighborhood |-> <<"a", " ">>, MapsURL |-> UrlWithAddress,
   Mon |-> yes, Tue |-> <<>>, Wed |-> <<"n", "o">>]
Row3 ==
  [Neighborhood |-> <<"B">>, MapsURL |-> UrlUnparsable,
   Mon |-> <<"Y", "e", "s">>, Thu |-> <<"y", "e", "s", " ">>, Fri |-> yes]
Row4 ==
  [Neighborhood |-> <<>>, MapsURL |-> UrlAbsent]

\* the published sheet, in file order
MasterFile == <<Row1, Row2, Row3, Row4>>

\* results.data of a parse that completes: the first rows of the sheet
CsvFiles == { SubSeq(MasterFile, 1, n) : n \in 0..MaxRows }

(***************************************************************************)
(* loadCSVData: the sort and the ids.                                      *)
(***************************************************************************)
\* the collation rank of a lower-case character: white space, digits, letters
CharRank(c) ==
  CASE c = " " -> 0
    [] c = "0" -> 1
    [] c = "1" -> 2
    [] c = "2" -> 3
    [] c = "a" -> 4
    [] c = "b" -> 5
    [] OTHER -> 6

\* a.localeCompare(b) on lower-case strings: negative, zero or positive
RECURSIVE localeCompare(_, _)
localeCompare(a, b) ==
  IF a = <<>> /\ b = <<>> THEN 0
  ELSE IF a = <<>> THEN -1
  ELSE IF b = <<>> THEN 1
  ELSE IF CharRank(Head(a)) < CharRank(Head(b)) THEN -1
  ELSE IF CharRank(Head(a)) > CharRank(Head(b)) THEN 1
  ELSE localeCompare(Tail(a), Tail(b))

\* (a.Neighborhood || '').toLowerCase()
sortKey(row) ==
  toLowerCase(IF Truthy(Get(row, "Neighborhood")) THEN row.Neighborhood ELSE <<>>)

compareRows(a, b) == localeCompare(sortKey(a), sortKey(b))

\* Mutant of insertRow: a row goes in front of the rows it compares equal to.
RECURSIVE insertRow_unstable(_, _)
insertRow_unstable(sorted, row) ==
  IF sorted = <<>> THEN <<row>>
  ELSE IF compareRows(Head(sorted), row) < 0
    THEN <<Head(sorted)>> \o insertRow_unstable(Tail(sorted), row)
    ELSE <<row>> \o sorted

\* Array.prototype.sort is stable: a row goes behind the rows it does not precede
RECURSIVE insertRow(_, _)
insertRow(sorted, row) ==
  IF sorted = <<>> THEN <<row>>
  ELSE IF compareRows(Head(sorted), row) <= 0
    THEN <<Head(sorted)>> \o insertRow(Tail(sorted), row)
    ELSE <<row>> \o sorted

RECURSIVE sortRows(_)
sortRows(rows) ==
  IF rows = <<>> THEN <<>>
  ELSE insertRow(sortRows(SubSeq(rows, 1, Len(rows) - 1)), rows[Len(rows)])

\* data.forEach((row, index) => row.id = index)
assignIds(rows) == [i \in 1..Len(rows) |-> [id |-> i - 1] @@ rows[i]]

\* allRestaurants.find(x => String(x.id) === id)
findById(rows, id) == rows[id + 1]

Ids(rows) == { rows[i].id : i \in 1..Len(rows) }

(***************************************************************************)
(* The page: the mutable state the handlers read and write, as one record. *)
(***************************************************************************)
Page ==
  [today |-> today, checked |-> checked, active |-> active,
   innerWidth |-> innerWidth, innerHeight |-> innerHeight,
   allRestaurants |-> allRestaurants, cards |-> cards, sections |-> sections,
   slidesData |-> slidesData, currentSlideIndex |-> currentSlideIndex,
   swipeListeners |-> swipeListeners,
   markerMap |-> markerMap, geocoding |-> geocoding]

NoMarker == [exists |-> FALSE, onMap |-> FALSE, opacity |-> 0]

\* the width up to which the page is in mobile mode
MobileMax == 800

Widths == {MobileMax, MobileMax + 1}

\* r.Neighborhood ? r.Neighborhood.trim() : 'Uncategorized'
groupKey(r) ==
  IF Truthy(Get(r, "Neighborhood")) THEN trim(r.Neighborhood)
  ELSE <<"Uncategorized">>

\* Mutant of getAddressFromMapsURL: a URL that does not parse, or has no q
\* parameter, is used as the address itself.
getAddressFromMapsURL_rawUrl(url) ==
  IF ~url.given THEN Undefined
  ELSE IF ~url.parses THEN <<"u">>
  ELSE IF url.q = Undefined THEN <<"u">>
  ELSE url.q

\* getAddressFromMapsURL: the q parameter, or Undefined (null)
getAddressFromMapsURL(url) ==
  IF ~url.given THEN Undefined
  ELSE IF ~url.parses THEN Undefined
  ELSE url.q

\* markerMap[id]
markerOf(p, id) == IF id \in DOMAIN p.markerMap THEN p.markerMap[id] ELSE NoMarker

\* the geocode requests in flight for `id`
pendingOf(p, id) == IF id \in DOMAIN p.geocoding THEN p.geocoding[id] ELSE 0

\* createOrUpdateMarker: one more geocode request unless a marker is recorded
\* or the row has no address
createOrUpdateMarker(p, restaurant) ==
  IF ~markerOf(p, restaurant.id).exists
    THEN LET address == getAddressFromMapsURL(restaurant.MapsURL) IN
           IF ~Truthy(address) THEN p
           ELSE [p EXCEPT !.geocoding =
                   (restaurant.id :> (pendingOf(p, restaurant.id) + 1)) @@ @]
    ELSE p

\* createOrUpdateMarker for every row of `rows`, in order
RECURSIVE createMarkers(_, _)
createMarkers(p, rows) ==
  IF rows = <<>> THEN p
  ELSE createMarkers(createOrUpdateMarker(p, Head(rows)), Tail(rows))

\* the keys of `groups` in insertion order
RECURSIVE groupKeys(_)
groupKeys(rows) ==
  IF rows = <<>> THEN <<>>
  ELSE LET before == groupKeys(SubSeq(rows, 1, Len(rows) - 1))
           k == groupKey(rows[Len(rows)])
       IN  IF \E i \in 1..Len(before) : before[i] = k THEN before
           ELSE Append(before, k)

\* a decimal digit's value, -1 for any other character
DigitValue(c) ==
  CASE c = "0" -> 0
    [] c = "1" -> 1
    [] c = "2" -> 2
    [] OTHER -> -1

\* a property key that is an array index: a canonical decimal numeral (the
\* keys of the model are far below the 2^32 - 1 limit)
isArrayIndex(k) ==
  /\ k # <<>>
  /\ \A i \in 1..Len(k) : DigitValue(k[i]) >= 0
  /\ Len(k) > 1 => k[1] # "0"

RECURSIVE indexValue(_)
indexValue(k) ==
  IF k = <<>> THEN 0
  ELSE 10 * indexValue(SubSeq(k, 1, Len(k) - 1)) + DigitValue(k[Len(k)])

RECURSIVE insertIndex(_, _)
insertIndex(sorted, k) ==
  IF sorted = <<>> THEN <<k>>
  ELSE IF indexValue(Head(sorted)) < indexValue(k)
    THEN <<Head(sorted)>> \o insertIndex(Tail(sorted), k)
    ELSE <<k>> \o sorted

RECURSIVE ascendingIndices(_)
ascendingIndices(keys) ==
  IF keys = <<>> THEN <<>>
  ELSE insertIndex(ascendingIndices(Tail(keys)), Head(keys))

\* the order in which for...in visits the own keys of an object: the array
\* indices in ascending numeric order, then the other keys in insertion order
ownPropertyKeys(keys) ==
  ascendingIndices(SelectSeq(keys, isArrayIndex))
    \o SelectSeq(keys, LAMBDA k : ~isArrayIndex(k))

\* for (const neighborhood in groups)
forInKeys(rows) == ownPropertyKeys(groupKeys(rows))

\* groups[nb]: the rows of the key, in order
groupMembers(rows, nb) == SelectSeq(rows, LAMBDA r : groupKey(r) = nb)

\* renderDesktopView: a section per group, a card and a marker request per row
renderDesktopView(p) ==
  LET keys == forInKeys(p.allRestaurants)
      built ==
        [p EXCEPT
           !.cards = [id \in Ids(p.allRestaurants) |-> ""],
           !.sections =
             [i \in 1..Len(keys) |->
                [key |-> keys[i],
                 members |->
                   LET m == groupMembers(p.allRestaurants, keys[i]) IN
                     [j \in 1..Len(m) |-> m[j].id],
                 display |-> ""]]]
      order ==
        LET RECURSIVE flat(_)
            flat(i) == IF i > Len(keys) THEN <<>>
                       ELSE groupMembers(p.allRestaurants, keys[i]) \o flat(i + 1)
        IN  flat(1)
  IN  createMarkers(built, order)

\* Mutant of updateMobileCarousel: a slide for every row, filtered or not.
updateMobileCarousel_allRows(p) ==
  IF p.innerWidth > MobileMax THEN p
  ELSE LET rebuilt ==
             [p EXCEPT !.slidesData =
                [i \in 1..Len(p.allRestaurants) |-> p.allRestaurants[i].id]]
           requested == createMarkers(rebuilt, p.allRestaurants)
       IN  [requested EXCEPT !.currentSlideIndex = 0, !.swipeListeners = TRUE]

\* updateMobileCarousel: the slide list rebuilt from the rows that pass the filter
updateMobileCarousel(p) ==
  IF p.innerWidth > MobileMax THEN p
  ELSE LET visible ==
             SelectSeq(p.allRestaurants,
                       LAMBDA r : isRestaurantVisible(r, p.checked, p.active, p.today))
           rebuilt ==
             [p EXCEPT !.slidesData = [i \in 1..Len(visible) |-> visible[i].id]]
           requested == createMarkers(rebuilt, visible)
       IN  [requested EXCEPT !.currentSlideIndex = 0, !.swipeListeners = TRUE]

\* Mutant of filterCards: the active buttons take precedence over happening-now.
filterCards_buttonsFirst(p) ==
  LET activeDays == getActiveDayFilters(p.active)
      filterDays ==
        IF Len(activeDays) > 0
          THEN activeDays
          ELSE IF p.checked /\ p.today >= 1 /\ p.today <= 5
            THEN <<days[p.today + 1]>> ELSE <<>>
      show(id) ==
        IF Len(filterDays) > 0
          THEN someDayYes(findById(p.allRestaurants, id), filterDays)
          ELSE TRUE
  IN  [p EXCEPT
         !.cards = [id \in DOMAIN p.cards |-> IF show(id) THEN "" ELSE "none"],
         !.markerMap =
           [id \in DOMAIN p.markerMap |->
              IF id \in DOMAIN p.cards /\ p.markerMap[id].exists
                THEN [p.markerMap[id] EXCEPT !.onMap = show(id)]
                ELSE p.markerMap[id]]]

\* the show/hide pass of applyFilters over the cards and their markers
filterCards(p) ==
  LET activeDays == getActiveDayFilters(p.active)
      filterDays ==
        IF p.checked /\ p.today >= 1 /\ p.today <= 5
          THEN <<days[p.today + 1]>>
          ELSE IF Len(activeDays) > 0 THEN activeDays ELSE <<>>
      show(id) ==
        IF Len(filterDays) > 0
          THEN someDayYes(findById(p.allRestaurants, id), filterDays)
          ELSE TRUE
  IN  [p EXCEPT
         !.cards = [id \in DOMAIN p.cards |-> IF show(id) THEN "" ELSE "none"],
         !.markerMap =
           [id \in DOMAIN p.markerMap |->
              IF id \in DOMAIN p.cards /\ p.markerMap[id].exists
                THEN [p.markerMap[id] EXCEPT !.onMap = show(id)]
                ELSE p.markerMap[id]]]

\* Mutant of hideEmptySections: an empty section is hidden, a hidden section is
\* never shown again.
hideEmptySections_onlyHides(p) ==
  [p EXCEPT
     !.sections =
       [i \in DOMAIN p.sections |->
          [p.sections[i] EXCEPT
             !.display =
               IF \E j \in 1..Len(p.sections[i].members) :
                    /\ p.sections[i].members[j] \in DOMAIN p.cards
                    /\ p.cards[p.sections[i].members[j]] # "none"
                 THEN @ ELSE "none"]]]

\* a section is displayed iff one of its cards is not display: none
hideEmptySections(p) ==
  [p EXCEPT
     !.sections =
       [i \in DOMAIN p.sections |->
          [p.sections[i] EXCEPT
             !.display =
               IF \E j \in 1..Len(p.sections[i].members) :
                    /\ p.sections[i].members[j] \in DOMAIN p.cards
                    /\ p.cards[p.sections[i].members[j]] # "none"
                 THEN "" ELSE "none"]]]

applyFilters(p) ==
  LET desktop == hideEmptySections(filterCards(p)) IN
    IF desktop.innerWidth <= MobileMax THEN updateMobileCarousel(desktop)
    ELSE desktop

\* Mutant of loadComplete: the ids are given in file order, before the sort.
loadComplete_idsBeforeSort(p, results) ==
  LET data == sortRows(assignIds(results))
      stored == [p EXCEPT !.allRestaurants = data]
      rendered == renderDesktopView(stored)
      mobile == IF rendered.innerWidth <= MobileMax
                  THEN updateMobileCarousel(rendered) ELSE rendered
  IN  applyFilters(mobile)

\* the complete callback of Papa.parse
loadComplete(p, results) ==
  LET data == assignIds(sortRows(results))
      stored == [p EXCEPT !.allRestaurants = data]
      rendered == renderDesktopView(stored)
      mobile == IF rendered.innerWidth <= MobileMax
                  THEN updateMobileCarousel(rendered) ELSE rendered
  IN  applyFilters(mobile)

\* Mutant of happeningNowButtons: switching on adds today's button to the
\* active ones instead of replacing them.
happeningNowButtons_addsToday(isChecked, act, todayIndex) ==
  IF isChecked
    THEN IF dayMapping(todayIndex) # "undefined"
           THEN (act \cup {dayMapping(todayIndex)}) \ {"all"}
           ELSE {"all"}
    ELSE {"all"}

\* Mutant of happeningNowButtons: switching off leaves the buttons as they are.
happeningNowButtons_offKeeps(isChecked, act, todayIndex) ==
  IF isChecked
    THEN IF dayMapping(todayIndex) # "undefined"
           THEN {dayMapping(todayIndex)}
           ELSE {"all"}
    ELSE act

\* the classes the change listener of the toggle leaves on the buttons
happeningNowButtons(isChecked, act, todayIndex) ==
  IF isChecked
    THEN IF dayMapping(todayIndex) # "undefined"
           THEN { b \in { dayButtons[i] : i \in 1..Len(dayButtons) } :
                    b = dayMapping(todayIndex) } \ {"all"}
           ELSE {"all"}
    ELSE {"all"}

\* the change listener of the toggle up to its applyFilters call; p.checked is
\* the new state of the box
happeningNowControls(p) ==
  [p EXCEPT !.active = happeningNowButtons(p.checked, p.active, p.today)]

happeningNowChange(p) == applyFilters(happeningNowControls(p))

\* Mutant of selectAll: the ALL button leaves the toggle alone.
selectAll_keepsToggle(p) == [p EXCEPT !.active = {"all"}]

\* the ALL branch of the click listener
selectAll(p) == [p EXCEPT !.active = {"all"}, !.checked = FALSE]

\* Mutant of toggleClass: switching a weekday on switches the others off.
toggleClass_exclusive(act, day) ==
  IF day \in act THEN act \ {day} ELSE {day}

\* btn.classList.toggle('active')
toggleClass(act, day) ==
  IF day \in act THEN act \ {day} ELSE act \cup {day}

\* Mutant of isExactlyToday: today's button among the active ones is enough.
isExactlyToday_among(activeDays, currentDay) ==
  /\ currentDay # "undefined"
  /\ \E i \in 1..Len(activeDays) : activeDays[i] = currentDay

\* currentDay && activeDays.length === 1 && activeDays[0] === currentDay
isExactlyToday(activeDays, currentDay) ==
  /\ currentDay # "undefined"
  /\ Len(activeDays) = 1
  /\ activeDays[1] = currentDay

\* Mutant of dayButtonControls: a weekday click does not uncheck happening-now
\* first.
dayButtonControls_keepsToggle(p, day) ==
  IF day = "all"
    THEN selectAll(p)
    ELSE LET toggled == [p EXCEPT !.active = toggleClass(@, day)]
             anyActive == \E i \in 1..Len(dayButtons) :
                            dayButtons[i] # "all" /\ dayButtons[i] \in toggled.active
             marked == [toggled EXCEPT
                          !.active = IF anyActive THEN @ \ {"all"} ELSE @ \cup {"all"}]
             activeDays == getActiveDayFilters(marked.active)
             currentDay == dayMapping(p.today)
         IN  IF isExactlyToday(activeDays, currentDay)
               THEN [marked EXCEPT !.checked = TRUE] ELSE marked

\* the click listener of the button with data-day = day, up to applyFilters
dayButtonControls(p, day) ==
  IF day = "all"
    THEN selectAll(p)
    ELSE LET unchecked == [p EXCEPT !.checked = FALSE]
             toggled == [unchecked EXCEPT !.active = toggleClass(@, day)]
             anyActive == \E i \in 1..Len(dayButtons) :
                            dayButtons[i] # "all" /\ dayButtons[i] \in toggled.active
             marked == [toggled EXCEPT
                          !.active = IF anyActive THEN @ \ {"all"} ELSE @ \cup {"all"}]
             activeDays == getActiveDayFilters(marked.active)
             currentDay == dayMapping(p.today)
         IN  IF isExactlyToday(activeDays, currentDay)
               THEN [marked EXCEPT !.checked = TRUE] ELSE marked

dayButtonClick(p, day) == applyFilters(dayButtonControls(p, day))

\* the callback of geocoder.geocode for a request of `id`
\* Mutant of geocodeCallback: a marker is made whatever the status.
geocodeCallback_pinsAnyway(p, id, ok) ==
  [p EXCEPT
     !.geocoding = (id :> (pendingOf(p, id) - 1)) @@ @,
     !.markerMap = (id :> [exists |-> TRUE, onMap |-> TRUE, opacity |-> 3]) @@ @]

geocodeCallback(p, id, ok) ==
  LET answered == [p EXCEPT !.geocoding = (id :> (pendingOf(p, id) - 1)) @@ @] IN
    IF ok
      THEN [answered EXCEPT
              !.markerMap =
                (id :> [exists |-> TRUE, onMap |-> TRUE, opacity |-> 3]) @@ @]
      ELSE answered

(***************************************************************************)
(* The program of src/js/main.js.                                          *)
(***************************************************************************)
Commit(p) ==
  /\ today' = p.today
  /\ checked' = p.checked
  /\ active' = p.active
  /\ innerWidth' = p.innerWidth
  /\ innerHeight' = p.innerHeight
  /\ allRestaurants' = p.allRestaurants
  /\ cards' = p.cards
  /\ sections' = p.sections
  /\ slidesData' = p.slidesData
  /\ currentSlideIndex' = p.currentSlideIndex
  /\ swipeListeners' = p.swipeListeners
  /\ markerMap' = p.markerMap
  /\ geocoding' = p.geocoding

WithinBounds(p) ==
  /\ \A id \in DOMAIN p.geocoding : p.geocoding[id] <= MaxPending
  /\ Cardinality(p.active \cap Weekdays) <= MaxActive

Event(op, arg) == [op |-> op, arg |-> arg]

Init ==
  /\ today \in 0..6
  /\ checked = FALSE
  /\ active = {"all"}
  /\ innerWidth \in Widths
  /\ innerHeight = MobileMax + 1
  /\ load = "pending"
  /\ allRestaurants = <<>>
  /\ cards = <<>>
  /\ sections = <<>>
  /\ slidesData = <<>>
  /\ currentSlideIndex = 0
  /\ swipeListeners = FALSE
  /\ markerMap = <<>>
  /\ geocoding = <<>>
  /\ lastEvent = Event("init", "")
  /\ out = [op |-> "none"]

\* Papa.parse completes with the rows of the file
LoadComplete ==
  /\ load = "pending"
  /\ \E results \in CsvFiles :
       /\ WithinBounds(loadComplete(Page, results))
       /\ Commit(loadComplete(Page, results))
  /\ load' = "complete"
  /\ lastEvent' = Event("load", "")
  /\ UNCHANGED out

\* Mutant of LoadError: the fetch is started again.
LoadError_retries ==
  /\ load = "pending"
  /\ load' = "pending"
  /\ lastEvent' = Event("error", "")
  /\ UNCHANGED <<today, checked, active, innerWidth, innerHeight, allRestaurants,
                 cards, sections, slidesData, currentSlideIndex, swipeListeners,
                 markerMap,
                 geocoding, out>>

\* Papa.parse fails: the error is logged
LoadError ==
  /\ load = "pending"
  /\ load' = "error"
  /\ lastEvent' = Event("error", "")
  /\ UNCHANGED <<today, checked, active, innerWidth, innerHeight, allRestaurants,
                 cards, sections, slidesData, currentSlideIndex, swipeListeners,
                 markerMap,
                 geocoding, out>>

\* the user flips the happening-now box
ToggleHappeningNow ==
  /\ WithinBounds(happeningNowChange([Page EXCEPT !.checked = ~checked]))
  /\ Commit(happeningNowChange([Page EXCEPT !.checked = ~checked]))
  /\ lastEvent' = Event(IF checked THEN "toggleOff" ELSE "toggleOn", "")
  /\ UNCHANGED <<load, out>>

\* the user clicks the button of #day-filter with data-day = day
Click(day) ==
  /\ WithinBounds(dayButtonClick(Page, day))
  /\ Commit(dayButtonClick(Page, day))
  /\ lastEvent' = Event("click", day)
  /\ UNCHANGED <<load, out>>

ClickDayButton == \E i \in 1..Len(dayButtons) : Click(dayButtons[i])

\* the geocode request of record `id` is answered, with a location or without
GeocodeAnswered(id, ok) ==
  /\ id \in DOMAIN geocoding
  /\ geocoding[id] > 0
  /\ Commit(geocodeCallback(Page, id, ok))
  /\ UNCHANGED <<load, lastEvent, out>>

\* a geocode request is answered
GeocodeCallback ==
  \E id \in DOMAIN geocoding, ok \in BOOLEAN : GeocodeAnswered(id, ok)

\* the window is resized: updateCarouselPosition only moves the slide strip
Resize ==
  /\ \E w \in Widths \ {innerWidth} : innerWidth' = w
  /\ UNCHANGED <<today, checked, active, innerHeight, load, allRestaurants, cards,
                 sections, slidesData, currentSlideIndex, swipeListeners, markerMap,
                 geocoding,
                 lastEvent, out>>

\* the real-world day changes while the page is open
Midnight ==
  /\ today' = (today + 1) % 7
  /\ lastEvent' = Event("midnight", "")
  /\ UNCHANGED <<checked, active, innerWidth, innerHeight, load, allRestaurants,
                 cards, sections, slidesData, currentSlideIndex, swipeListeners,
                 markerMap,
                 geocoding, out>>

Next ==
  \/ LoadComplete
  \/ LoadError
  \/ ToggleHappeningNow
  \/ ClickDayButton
  \/ GeocodeCallback
  \/ Resize
  \/ Midnight

Spec == Init /\ [][Next]_vars

(***************************************************************************)
(* The same program on files whose first row has no usable MapsURL, on a   *)
(* Monday or a Saturday that does not end.                                 *)
(***************************************************************************)
\* results.data: a row without an address, alone or followed by one with
GeoFiles ==
  { <<first>> \o rest : first \in {Row1, Row3, Row4}, rest \in {<<>>, <<Row2>>} }

GeoInit == Init /\ today \in {1, 6}

\* Papa.parse completes with the rows of the file
GeoLoadComplete ==
  /\ load = "pending"
  /\ \E results \in GeoFiles :
       /\ WithinBounds(loadComplete(Page, results))
       /\ Commit(loadComplete(Page, results))
  /\ load' = "complete"
  /\ lastEvent' = Event("load", "")
  /\ UNCHANGED out

GeoNext ==
  \/ GeoLoadComplete
  \/ LoadError
  \/ ToggleHappeningNow
  \/ ClickDayButton
  \/ GeocodeCallback
  \/ Resize

SpecGeo == GeoInit /\ [][GeoNext]_vars

(***************************************************************************)
(* Selection, the neighborhood headers and the carousel's navigation.  The *)
(* 'selected' class of the cards is not part of the state: which of a      *)
(* record's cards carries it depends on the order of the sidebar and the   *)
(* carousel in the page.                                                   *)
(***************************************************************************)
Min(a, b) == IF a < b THEN a ELSE b

Max(a, b) == IF a > b THEN a ELSE b

\* Mutant of selectRestaurant: a record without a marker gets an entry for its
\* selection.
selectRestaurant_placeholder(p, selectedId) ==
  [p EXCEPT
     !.markerMap =
       [key \in DOMAIN p.markerMap \cup {selectedId} |->
          [markerOf(p, key) EXCEPT
             !.exists = TRUE,
             !.opacity = IF key = selectedId THEN 10 ELSE 3]]]

\* selectRestaurant: full opacity for the marker of selectedId, 0.3 for every
\* other marker (opacities in tenths)
selectRestaurant(p, selectedId) ==
  [p EXCEPT
     !.markerMap =
       [key \in DOMAIN p.markerMap |->
          IF p.markerMap[key].exists
            THEN [p.markerMap[key] EXCEPT
                    !.opacity = IF key = selectedId THEN 10 ELSE 3]
            ELSE p.markerMap[key]]]

\* the markers a click on the header of section i extends the bounds with
headerBounds(p, i) ==
  { p.sections[i].members[j] : j \in 1..Len(p.sections[i].members) }
    \cap { id \in DOMAIN p.markerMap : p.markerMap[id].exists }

nextSlide(p) ==
  [p EXCEPT !.currentSlideIndex = Min(Len(p.slidesData) - 1, @ + 1)]

prevSlide(p) ==
  [p EXCEPT !.currentSlideIndex = Max(0, @ - 1)]

\* handleTouchEnd: a swipe to the left, to the right, or a touch that is
\* neither, then the selection of the current slide's record
handleTouchEnd(p, swipe) ==
  LET moved == CASE swipe = "left" -> nextSlide(p)
                 [] swipe = "right" -> prevSlide(p)
                 [] OTHER -> p
      index == moved.currentSlideIndex
  IN  IF index >= 0 /\ index < Len(moved.slidesData)
        THEN selectRestaurant(moved, moved.slidesData[index + 1])
        ELSE moved

SelectEvent(id) == [op |-> "select", arg |-> "", id |-> id]

\* a click on a displayed card of the sidebar or on a slide's card
CardClick ==
  /\ \E id \in Ids(allRestaurants) :
       /\ \/ /\ id \in DOMAIN cards /\ cards[id] = ""
             /\ \E i \in 1..Len(sections) :
                  /\ sections[i].display = ""
                  /\ \E j \in 1..Len(sections[i].members) : sections[i].members[j] = id
          \/ /\ innerWidth <= MobileMax
             /\ \E k \in 1..Len(slidesData) : slidesData[k] = id
       /\ Commit(selectRestaurant(Page, id))
       /\ lastEvent' = SelectEvent(id)
  /\ UNCHANGED <<load, out>>

\* a click on a marker that is on the map
MarkerClick ==
  /\ \E id \in DOMAIN markerMap :
       /\ markerMap[id].exists /\ markerMap[id].onMap
       /\ Commit(selectRestaurant(Page, id))
       /\ lastEvent' = SelectEvent(id)
  /\ UNCHANGED <<load, out>>

\* a click on the header of a displayed section: the map is fitted to the
\* markers of the group, the page is left as it is
HeaderClick ==
  /\ \E i \in 1..Len(sections) :
       /\ sections[i].display = ""
       /\ lastEvent' =
            [op |-> "header", arg |-> "", fitted |-> headerBounds(Page, i) # {}]
  /\ UNCHANGED <<today, checked, active, innerWidth, innerHeight, load,
                 allRestaurants, cards, sections, slidesData, currentSlideIndex,
                 swipeListeners, markerMap, geocoding, out>>

\* a touch ends on the carousel
TouchEnd ==
  /\ swipeListeners
  /\ innerWidth <= MobileMax
  /\ \E swipe \in {"left", "right", "none"} :
       /\ Commit(handleTouchEnd(Page, swipe))
       /\ lastEvent' =
            IF handleTouchEnd(Page, swipe).currentSlideIndex \in 0..(Len(slidesData) - 1)
              THEN SelectEvent(slidesData[handleTouchEnd(Page, swipe).currentSlideIndex + 1])
              ELSE [op |-> "swipe", arg |-> swipe]
  /\ UNCHANGED <<load, out>>

\* results.data: a row with an address, alone or behind a row without
MapFiles == { <<Row2>>, <<Row1, Row2>> }

MapInit == Init /\ today = 2

MapLoadComplete ==
  /\ load = "pending"
  /\ \E results \in MapFiles :
       /\ WithinBounds(loadComplete(Page, results))
       /\ Commit(loadComplete(Page, results))
  /\ load' = "complete"
  /\ lastEvent' = Event("load", "")
  /\ UNCHANGED out

MapNext ==
  \/ MapLoadComplete
  \/ ToggleHappeningNow
  \/ ClickDayButton
  \/ GeocodeCallback
  \/ Resize
  \/ CardClick
  \/ MarkerClick
  \/ HeaderClick
  \/ TouchEnd

SpecMap == MapInit /\ [][MapNext]_vars

(***************************************************************************)
(* A refresh: loadCSVData runs a second time in the open page.  markerMap  *)
(* and the geocode requests in flight are globals and closures that the    *)
(* second run leaves as they are.  `out` keeps the book of what dates from *)
(* before the latest refresh.                                              *)
(***************************************************************************)
ReloadFiles == MapFiles \cup { <<Row1>> }

\* the requests in flight for `id` that were issued before the latest refresh
staleOf(id) ==
  IF out.op = "reloaded" /\ id \in DOMAIN out.stale THEN out.stale[id] ELSE 0

\* the ids whose marker was geocoded from a record of an earlier load
staleMarkers == IF out.op = "reloaded" THEN out.staleMarkers ELSE {}

\* Papa.parse completes again: the rows replace allRestaurants, the views are
\* rendered anew, and everything recorded so far belongs to an earlier load
Reload ==
  /\ load = "complete"
  /\ \E results \in ReloadFiles :
       /\ WithinBounds(loadComplete(Page, results))
       /\ Commit(loadComplete(Page, results))
  /\ lastEvent' = Event("reload", "")
  /\ out' = [op |-> "reloaded",
             stale |-> geocoding,
             staleMarkers |-> { id \in DOMAIN markerMap : markerMap[id].exists }]
  /\ UNCHANGED load

\* a request issued before (late) or after the latest refresh is answered
ReloadGeocodeAnswered(id, ok, late) ==
  /\ id \in DOMAIN geocoding
  /\ IF late THEN staleOf(id) > 0 ELSE geocoding[id] > staleOf(id)
  /\ Commit(geocodeCallback(Page, id, ok))
  /\ out' = IF out.op # "reloaded" THEN out
            ELSE [out EXCEPT
                    !.stale = IF late THEN (id :> (staleOf(id) - 1)) @@ @ ELSE @,
                    !.staleMarkers = IF ~ok THEN @
                                     ELSE IF late THEN @ \cup {id}
                                     ELSE @ \ {id}]
  /\ UNCHANGED <<load, lastEvent>>

ReloadGeocodeCallback ==
  \E id \in DOMAIN geocoding, ok \in BOOLEAN, late \in BOOLEAN :
    ReloadGeocodeAnswered(id, ok, late)

ReloadNext ==
  \/ MapLoadComplete
  \/ Reload
  \/ ToggleHappeningNow
  \/ ClickDayButton
  \/ ReloadGeocodeCallback
  \/ Resize

SpecReload == MapInit /\ [][ReloadNext]_vars

(***************************************************************************)
(* The portrait/landscape revision (src/unnamed/part_005): the sidebar is  *)
(* rendered from the rows that pass the filter, and every resize renders   *)
(* the layout again.                                                       *)
(***************************************************************************)
isMobilePortrait(p) == p.innerWidth <= MobileMax /\ p.innerHeight > p.innerWidth

\* renderDesktopView of part_005: cards only for the rows that pass the filter,
\* sections only for the groups that got a card, a marker request per row
renderDesktopView_p005(p) ==
  LET keys == forInKeys(p.allRestaurants)
      passes(r) == isRestaurantVisible(r, p.checked, p.active, p.today)
      carded(nb) == SelectSeq(groupMembers(p.allRestaurants, nb), passes)
      kept == SelectSeq(keys, LAMBDA nb : Len(carded(nb)) > 0)
      built ==
        [p EXCEPT
           !.cards =
             [id \in { r.id : r \in { p.allRestaurants[i] :
                                        i \in { j \in 1..Len(p.allRestaurants) :
                                                  passes(p.allRestaurants[j]) } } }
                |-> ""],
           !.sections =
             [i \in 1..Len(kept) |->
                [key |-> kept[i],
                 members |->
                   LET m == carded(kept[i]) IN [j \in 1..Len(m) |-> m[j].id],
                 display |-> ""]]]
      order ==
        LET RECURSIVE flat(_)
            flat(i) == IF i > Len(keys) THEN <<>>
                       ELSE groupMembers(p.allRestaurants, keys[i]) \o flat(i + 1)
        IN  flat(1)
  IN  createMarkers(built, order)

\* updateMobileCarousel of part_005: a marker request for every row
updateMobileCarousel_p005(p) ==
  IF ~isMobilePortrait(p) THEN p
  ELSE LET visible ==
             SelectSeq(p.allRestaurants,
                       LAMBDA r : isRestaurantVisible(r, p.checked, p.active, p.today))
           rebuilt ==
             [p EXCEPT !.slidesData = [i \in 1..Len(visible) |-> visible[i].id]]
           requested == createMarkers(rebuilt, p.allRestaurants)
       IN  [requested EXCEPT !.currentSlideIndex = 0, !.swipeListeners = TRUE]

updateLayout_p005(p) ==
  IF isMobilePortrait(p) THEN updateMobileCarousel_p005(p)
  ELSE renderDesktopView_p005(p)

\* the show/hide pass of part_005 over the cards that exist and their markers
filterCards_p005(p) ==
  LET show(id) ==
        isRestaurantVisible(findById(p.allRestaurants, id), p.checked, p.active, p.today)
  IN  [p EXCEPT
         !.cards = [id \in DOMAIN p.cards |-> IF show(id) THEN "" ELSE "none"],
         !.markerMap =
           [id \in DOMAIN p.markerMap |->
              IF id \in DOMAIN p.cards /\ p.markerMap[id].exists
                THEN [p.markerMap[id] EXCEPT !.onMap = show(id)]
                ELSE p.markerMap[id]]]

applyFilters_p005(p) ==
  LET desktop == hideEmptySections(filterCards_p005(p)) IN
    IF isMobilePortrait(desktop) THEN updateMobileCarousel_p005(desktop)
    ELSE desktop

loadComplete_p005(p, results) ==
  LET data == assignIds(sortRows(results))
      stored == [p EXCEPT !.allRestaurants = data]
  IN  applyFilters_p005(updateLayout_p005(renderDesktopView_p005(stored)))

happeningNowChange_p005(p) == applyFilters_p005(happeningNowControls(p))

dayButtonClick_p005(p, day) == applyFilters_p005(dayButtonControls(p, day))

P5Init ==
  /\ today \in 0..6
  /\ checked = FALSE
  /\ active = {"all"}
  /\ innerWidth \in Widths
  /\ innerHeight = MobileMax + 1
  /\ load = "pending"
  /\ allRestaurants = <<>>
  /\ cards = <<>>
  /\ sections = <<>>
  /\ slidesData = <<>>
  /\ currentSlideIndex = 0
  /\ swipeListeners = FALSE
  /\ markerMap = <<>>
  /\ geocoding = <<>>
  /\ lastEvent = Event("init", "")
  /\ out = [op |-> "none"]

P5LoadComplete ==
  /\ load = "pending"
  /\ \E results \in CsvFiles :
       /\ WithinBounds(loadComplete_p005(Page, results))
       /\ Commit(loadComplete_p005(Page, results))
  /\ load' = "complete"
  /\ lastEvent' = Event("load", "")
  /\ UNCHANGED out

P5ToggleHappeningNow ==
  /\ WithinBounds(happeningNowChange_p005([Page EXCEPT !.checked = ~checked]))
  /\ Commit(happeningNowChange_p005([Page EXCEPT !.checked = ~checked]))
  /\ lastEvent' = Event(IF checked THEN "toggleOff" ELSE "toggleOn", "")
  /\ UNCHANGED <<load, out>>

P5Click(day) ==
  /\ WithinBounds(dayButtonClick_p005(Page, day))
  /\ Commit(dayButtonClick_p005(Page, day))
  /\ lastEvent' = Event("click", day)
  /\ UNCHANGED <<load, out>>

P5ClickDayButton == \E i \in 1..Len(dayButtons) : P5Click(dayButtons[i])

\* the window, taller than MobileMax, is resized across the threshold:
\* updateLayout runs under the new width
P5Resize ==
  /\ \E w \in Widths \ {innerWidth} :
       /\ WithinBounds(updateLayout_p005([Page EXCEPT !.innerWidth = w]))
       /\ Commit(updateLayout_p005([Page EXCEPT !.innerWidth = w]))
  /\ UNCHANGED <<load, lastEvent, out>>

P5Next ==
  \/ P5LoadComplete
  \/ LoadError
  \/ P5ToggleHappeningNow
  \/ P5ClickDayButton
  \/ GeocodeCallback
  \/ P5Resize
  \/ Midnight

SpecP5 == P5Init /\ [][P5Next]_vars

(***************************************************************************)
(* The always-desktop revision (part_000): the sidebar in every layout.    *)
(***************************************************************************)
\* renderDesktopView of part_000: a displayed card for every row, a section
\* for every group, a marker request per row
renderDesktopView_p000(p) ==
  LET keys == forInKeys(p.allRestaurants)
      built ==
        [p EXCEPT
           !.cards = [id \in Ids(p.allRestaurants) |-> ""],
           !.sections =
             [i \in 1..Len(keys) |->
                [key |-> keys[i],
                 members |->
                   LET m == groupMembers(p.allRestaurants, keys[i]) IN
                     [j \in 1..Len(m) |-> m[j].id],
                 display |-> ""]]]
      order ==
        LET RECURSIVE flat(_)
            flat(i) == IF i > Len(keys) THEN <<>>
                       ELSE groupMembers(p.allRestaurants, keys[i]) \o flat(i + 1)
        IN  flat(1)
  IN  createMarkers(built, order)

\* updateLayout of part_000: the sidebar is shown and rendered anew
updateLayout_p000(p) == renderDesktopView_p000(p)

\* the show/hide pass of part_000 over the cards that exist and their markers
filterCards_p000(p) ==
  LET show(id) ==
        isRestaurantVisible(findById(p.allRestaurants, id), p.checked, p.active, p.today)
  IN  [p EXCEPT
         !.cards = [id \in DOMAIN p.cards |-> IF show(id) THEN "" ELSE "none"],
         !.markerMap =
           [id \in DOMAIN p.markerMap |->
              IF id \in DOMAIN p.cards /\ p.markerMap[id].exists
                THEN [p.markerMap[id] EXCEPT !.onMap = show(id)]
                ELSE p.markerMap[id]]]

applyFilters_p000(p) == hideEmptySections(filterCards_p000(p))

loadComplete_p000(p, results) ==
  LET data == assignIds(sortRows(results))
      stored == [p EXCEPT !.allRestaurants = data]
  IN  applyFilters_p000(renderDesktopView_p000(stored))

happeningNowChange_p000(p) == applyFilters_p000(happeningNowControls(p))

dayButtonClick_p000(p, day) == applyFilters_p000(dayButtonControls(p, day))

\* DOMContentLoaded has run updateLayout over the empty allRestaurants
P0Init == Init /\ today = 2

P0LoadComplete ==
  /\ load = "pending"
  /\ \E results \in MapFiles :
       /\ WithinBounds(loadComplete_p000(Page, results))
       /\ Commit(loadComplete_p000(Page, results))
  /\ load' = "complete"
  /\ lastEvent' = Event("load", "")
  /\ UNCHANGED out

P0ToggleHappeningNow ==
  /\ WithinBounds(happeningNowChange_p000([Page EXCEPT !.checked = ~checked]))
  /\ Commit(happeningNowChange_p000([Page EXCEPT !.checked = ~checked]))
  /\ lastEvent' = Event(IF checked THEN "toggleOff" ELSE "toggleOn", "")
  /\ UNCHANGED <<load, out>>

P0Click(day) ==
  /\ WithinBounds(dayButtonClick_p000(Page, day))
  /\ Commit(dayButtonClick_p000(Page, day))
  /\ lastEvent' = Event("click", day)
  /\ UNCHANGED <<load, out>>

P0ClickDayButton == \E i \in 1..Len(dayButtons) : P0Click(dayButtons[i])

\* the window is resized or turned: updateLayout runs
P0Resize ==
  /\ \E w \in Widths \ {innerWidth} :
       /\ WithinBounds(updateLayout_p000([Page EXCEPT !.innerWidth = w]))
       /\ Commit(updateLayout_p000([Page EXCEPT !.innerWidth = w]))
  /\ lastEvent' = Event("resize", "")
  /\ UNCHANGED <<load, out>>

P0Next ==
  \/ P0LoadComplete
  \/ P0ToggleHappeningNow
  \/ P0ClickDayButton
  \/ GeocodeCallback
  \/ P0Resize

SpecP0 == P0Init /\ [][P0Next]_vars

(***************************************************************************)
(* The visibility predicate and the table revision's display, applied to   *)
(* one record under every state of the controls.                           *)
(***************************************************************************)
(* Faults: the places where the load and the filter call a method on a     *)
(* field's value, and whether the call throws a TypeError.                 *)
(***************************************************************************)
\* a method call on `v` throws when v is undefined
MethodThrows(v) == v = Undefined

\* (row.Neighborhood || '').toLowerCase() of the sort's comparator
sortKeyThrows(row) ==
  MethodThrows(IF Truthy(Get(row, "Neighborhood"))
                 THEN Get(row, "Neighborhood") ELSE <<>>)

\* r.Neighborhood ? r.Neighborhood.trim() : 'Uncategorized'
groupKeyThrows(r) ==
  Truthy(Get(r, "Neighborhood")) /\ MethodThrows(Get(r, "Neighborhood"))

\* Mutant of someDayThrows: the column's value is lowered without the guard.
someDayThrows_unguarded(restaurant, filterDays) ==
  \E i \in 1..Len(filterDays) :
    /\ \A j \in 1..(i - 1) : ~someDayYes(restaurant, <<filterDays[j]>>)
    /\ MethodThrows(Get(restaurant, getCsvColumn(filterDays[i])))

\* filterDays.some(...): the callback runs for the days up to the first that
\* returns true, and calls toLowerCase only on a truthy value
someDayThrows(restaurant, filterDays) ==
  \E i \in 1..Len(filterDays) :
    /\ \A j \in 1..(i - 1) : ~someDayYes(restaurant, <<filterDays[j]>>)
    /\ Truthy(Get(restaurant, getCsvColumn(filterDays[i])))
    /\ MethodThrows(Get(restaurant, getCsvColumn(filterDays[i])))

isRestaurantVisibleThrows(restaurant, happeningNow, act, todayIndex) ==
  LET activeDays == getActiveDayFilters(act)
      filterDays ==
        IF happeningNow /\ todayIndex >= 1 /\ todayIndex <= 5
          THEN <<days[todayIndex + 1]>>
          ELSE IF Len(activeDays) > 0 THEN activeDays ELSE <<>>
  IN  Len(filterDays) > 0 /\ someDayThrows(restaurant, filterDays)

(***************************************************************************)
\* what a weekday cell of a row may hold
DayValues == { <<>>, yes, <<"Y", "e", "S">>, <<"n", "o">>, <<" ", "n", "o">> }

\* rows with at most MaxSetFields weekday columns, the other columns absent
VisRecords ==
  UNION { [D -> DayValues] :
            D \in { E \in SUBSET { weekdayKeys[i] : i \in 1..Len(weekdayKeys) } :
                      Cardinality(E) <= MaxSetFields } }

\* the states of the buttons: "all" is active iff no weekday is
ButtonStates ==
  { IF D = {} THEN {"all"} ELSE D :
      D \in { E \in SUBSET Weekdays : Cardinality(E) <= MaxActive } }

VisInit ==
  /\ today \in 0..6
  /\ checked \in BOOLEAN
  /\ active \in ButtonStates
  /\ innerWidth = MobileMax + 1
  /\ innerHeight = MobileMax + 1
  /\ load = "complete"
  /\ allRestaurants \in { assignIds(<<r>>) : r \in VisRecords }
  /\ cards = <<>>
  /\ sections = <<>>
  /\ slidesData = <<>>
  /\ currentSlideIndex = 0
  /\ swipeListeners = FALSE
  /\ markerMap = <<>>
  /\ geocoding = <<>>
  /\ lastEvent = Event("init", "")
  /\ out = [op |-> "none"]

\* isRestaurantVisible, and processData and filterRows of the table revision,
\* evaluated on the record
Evaluate ==
  /\ out.op = "none"
  /\ out' = [op |-> "evaluated",
             visible |-> isRestaurantVisible(allRestaurants[1], checked, active, today),
             threw |-> \/ sortKeyThrows(allRestaurants[1])
                       \/ groupKeyThrows(allRestaurants[1])
                       \/ isRestaurantVisibleThrows(allRestaurants[1], checked,
                                                    active, today),
             deals |-> dataDeals(allRestaurants[1]),
             cells |-> [i \in 1..Len(weekdayKeys) |->
                          dayCell(allRestaurants[1], weekdayKeys[i])],
             displayed |-> rowDisplayed(dataDeals(allRestaurants[1]), checked, today)]
  /\ UNCHANGED <<today, checked, active, innerWidth, innerHeight, load,
                 allRestaurants, cards, sections, slidesData, currentSlideIndex,
                 swipeListeners,
                 markerMap, geocoding, lastEvent>>

VisNext == Evaluate

SpecVis == VisInit /\ [][VisNext]_vars

(***************************************************************************)
(* Claims about the visibility predicate.                                  *)
(***************************************************************************)
\* the spellings of "yes" in any case
YesSpellings ==
  { <<a, b, c>> : a \in {"y", "Y"}, b \in {"e", "E"}, c \in {"s", "S"} }

\* the column of a weekday button, and of a weekday index
ColumnOf(d) == [mon |-> "Mon", tue |-> "Tue", wed |-> "Wed", thu |-> "Thu", fri |-> "Fri"][d]
ColumnOfIndex(t) == <<"Mon", "Tue", "Wed", "Thu", "Fri">>[t]

\* the record has a deal on the column: its value is "yes" in some case
HasDeal(r, col) == col \in DOMAIN r /\ r[col] \in YesSpellings

\* the row holds free text on the column: present, not empty, not "yes"
HasFreeText(r, col) == col \in DOMAIN r /\ r[col] # <<>> /\ r[col] \notin YesSpellings

ExpectedVisible(r, hn, act, t) ==
  IF hn /\ t \in 1..5 THEN HasDeal(r, ColumnOfIndex(t))
  ELSE IF act \cap Weekdays # {}
    THEN \E d \in act \cap Weekdays : HasDeal(r, ColumnOf(d))
    ELSE TRUE

\* C1: for every record, every state of the weekday buttons and the toggle and
\* every weekday index 0..6, isRestaurantVisible is: with happening-now on a
\* Monday..Friday, whether the record's value for today is "yes" in any case;
\* otherwise, with weekday buttons active, whether some active day's value is
\* "yes" in any case; otherwise true.
C1_VisibleAsSpecified ==
  out.op = "evaluated" =>
    out.visible = ExpectedVisible(allRestaurants[1], checked, active, today)

\* C1 witness: happening-now on a Wednesday overrides an active Monday button
\* whose column holds a deal, and the record is found not visible.
C1_Witness ==
  /\ out.op = "evaluated"
  /\ checked /\ today = 3 /\ active = {"mon"}
  /\ HasDeal(allRestaurants[1], "Mon")
  /\ ~HasDeal(allRestaurants[1], "Wed")
  /\ ~out.visible

\* the day filter in effect is exactly the weekday with index t
OnlyDayInEffect(t) ==
  \/ checked /\ today = t
  \/ ~(checked /\ today \in 1..5) /\ active \cap Weekdays = {days[t + 1]}

NoDayInEffect ==
  ~(checked /\ today \in 1..5) /\ active \cap Weekdays = {}

Loaded == load = "complete"

ActiveWeekdays == active \cap Weekdays

\* isRestaurantVisible of a row, evaluated now
VisibleNow(r) == isRestaurantVisible(r, checked, active, today)

\* the row's desktop card exists and is not display: none
CardDisplayed(id) == id \in DOMAIN cards /\ cards[id] = ""

\* the cards are as the last re-evaluation pass left them, and that pass read
\* today's weekday
PassIsCurrent == Loaded /\ lastEvent.op \in {"load", "click", "toggleOn", "toggleOff"}

Rows == { allRestaurants[i] : i \in 1..Len(allRestaurants) }

\* C3: whenever happening-now is checked on a Monday..Friday, the rows that
\* isRestaurantVisible shows are exactly the rows whose value for today is
\* "yes" in some case, whatever weekday buttons are active, and so are the
\* cards a re-evaluation pass has left displayed.
C3_HappeningNowOverrides ==
  (checked /\ today \in 1..5) =>
    \A r \in Rows :
      /\ VisibleNow(r) <=> HasDeal(r, ColumnOfIndex(today))
      /\ PassIsCurrent => (CardDisplayed(r.id) <=> HasDeal(r, ColumnOfIndex(today)))

\* C3 witness: happening-now is checked on a weekday while another weekday's
\* button is active; a row with "yes" on that other day only has had its card
\* hidden by the pass, a row with "yes" today has its card displayed.
C3_Witness ==
  /\ checked /\ today \in 1..5 /\ PassIsCurrent
  /\ \E d \in ActiveWeekdays, r \in Rows :
       /\ d # days[today + 1]
       /\ HasDeal(r, ColumnOf(d))
       /\ ~HasDeal(r, ColumnOfIndex(today))
       /\ r.id \in DOMAIN cards /\ cards[r.id] = "none"
  /\ \E r \in Rows : HasDeal(r, ColumnOfIndex(today)) /\ CardDisplayed(r.id)

\* C4: whenever happening-now is checked on a Saturday or Sunday, no day
\* restriction applies: isRestaurantVisible shows every loaded row.
C4_WeekendShowsAll ==
  (checked /\ today \in {0, 6}) => \A r \in Rows : VisibleNow(r)

\* the handler of a click on a weekday button has just run
AfterWeekdayClick == lastEvent.op = "click" /\ lastEvent.arg \in Weekdays

\* C6: a click on weekday button d flips d among the active weekdays and leaves
\* the other weekdays as they were; happening-now, if it was checked, stays
\* checked only by the click's own auto-transition; the ALL button is active
\* afterwards iff no weekday is.
C6_WeekdayClickToggles ==
  [][\A d \in Weekdays :
       Click(d) =>
         /\ (active' \cap Weekdays) \ {d} = (active \cap Weekdays) \ {d}
         /\ (d \in active') <=> (d \notin active)
         /\ ("all" \in active') <=> (active' \cap Weekdays = {})
         /\ (checked /\ checked') =>
              (today \in 1..5 /\ active' \cap Weekdays = {days[today + 1]})]_vars

\* C6 witness: after a click on a weekday button two weekdays are active and
\* the ALL button is not.
C6_Witness ==
  /\ AfterWeekdayClick
  /\ Cardinality(ActiveWeekdays) = 2
  /\ lastEvent.arg \in ActiveWeekdays
  /\ "all" \notin active

\* C7: after a click on a weekday button, happening-now is checked iff today is
\* Monday..Friday and the active weekdays are exactly today's.
C7_AutoHappeningNow ==
  AfterWeekdayClick =>
    (checked <=> (today \in 1..5 /\ ActiveWeekdays = {days[today + 1]}))

\* C7 witness: a click on a weekday button has left exactly today's button
\* active and happening-now checked.
C7_Witness ==
  /\ AfterWeekdayClick
  /\ today \in 1..5 /\ ActiveWeekdays = {days[today + 1]}
  /\ checked

\* C8: after happening-now is switched on it is checked; on a Monday..Friday
\* exactly today's button is active and the ALL button is not; on a Saturday or
\* Sunday no weekday button is active and the ALL button is.
C8_ToggleOn ==
  lastEvent.op = "toggleOn" =>
    /\ checked
    /\ today \in 1..5 => active = {days[today + 1]}
    /\ today \in {0, 6} => active = {"all"}

\* C8 witness: happening-now was switched on on a Wednesday.
C8_Witness ==
  lastEvent.op = "toggleOn" /\ today = 3 /\ active = {"wed"} /\ checked /\ Loaded

\* C9: after a click on the ALL button no weekday button is active, the ALL
\* button is active, happening-now is unchecked, and every loaded row is
\* visible: its card is displayed and so is every section.
C9_AllButton ==
  (lastEvent.op = "click" /\ lastEvent.arg = "all") =>
    /\ active = {"all"}
    /\ ~checked
    /\ Loaded =>
         /\ \A r \in Rows : VisibleNow(r) /\ CardDisplayed(r.id)
         /\ \A i \in 1..Len(sections) : sections[i].display = ""

\* C9 witness: the ALL button was clicked with rows loaded, all displayed.
C9_Witness ==
  /\ lastEvent.op = "click" /\ lastEvent.arg = "all"
  /\ Loaded /\ Len(allRestaurants) > 1
  /\ \A r \in Rows : CardDisplayed(r.id)

\* C10: after happening-now is switched off no weekday button is active, the
\* ALL button is active, and every loaded row is visible: its card is
\* displayed and so is every section.
C10_ToggleOff ==
  lastEvent.op = "toggleOff" =>
    /\ active = {"all"}
    /\ ~checked
    /\ Loaded =>
         /\ \A r \in Rows : VisibleNow(r) /\ CardDisplayed(r.id)
         /\ \A i \in 1..Len(sections) : sections[i].display = ""

\* C10 witness: happening-now was switched off with rows loaded, all displayed.
C10_Witness ==
  /\ lastEvent.op = "toggleOff"
  /\ Loaded /\ Len(allRestaurants) > 1
  /\ \A r \in Rows : CardDisplayed(r.id)

(***************************************************************************)
(* Claims about the portrait/landscape revision (src/unnamed/part_005).    *)
(***************************************************************************)
\* C5: once the load has completed, whenever no weekday button is active and
\* happening-now is off, every loaded row has a displayed card: in the sidebar
\* layout a card of the sidebar that is not hidden, in the portrait layout a
\* slide of the carousel.
C5_AllDaysShowsEveryCard ==
  (Loaded /\ ActiveWeekdays = {} /\ ~checked) =>
    \A r \in Rows :
      IF isMobilePortrait(Page)
        THEN \E i \in 1..Len(slidesData) : slidesData[i] = r.id
        ELSE CardDisplayed(r.id)

(***************************************************************************)
(* The load on its own: the complete callback of loadCSVData applied to    *)
(* every short file over a set of Neighborhood cells.                      *)
(***************************************************************************)
\* what the Neighborhood cell of a row may hold; Undefined is a row that has
\* no such column
NeighborhoodValues ==
  { Undefined, <<>>, <<" ">>, <<"a">>, <<"b">>, <<"B">>, <<" ", "b">>,
    <<"2">>, <<"1", "0">> }

\* the row on line n of the file: its RestaurantName is n letters long
ParsedRow(nb, n) ==
  LET named == [RestaurantName |-> [i \in 1..n |-> "r"], MapsURL |-> UrlAbsent] IN
    IF nb = Undefined THEN named ELSE [Neighborhood |-> nb] @@ named

\* results.data: files of at most MaxFileLen rows
ParsedFiles ==
  UNION { { [i \in 1..n |-> ParsedRow(cells[i], i)] :
              cells \in [1..n -> NeighborhoodValues] } : n \in 0..MaxFileLen }

LoadInit ==
  /\ today = 3
  /\ checked = FALSE
  /\ active = {"all"}
  /\ innerWidth \in Widths
  /\ innerHeight = MobileMax + 1
  /\ load = "pending"
  /\ allRestaurants = <<>>
  /\ cards = <<>>
  /\ sections = <<>>
  /\ slidesData = <<>>
  /\ currentSlideIndex = 0
  /\ swipeListeners = FALSE
  /\ markerMap = <<>>
  /\ geocoding = <<>>
  /\ lastEvent = Event("init", "")
  /\ out \in { [op |-> "parsed", data |-> file] : file \in ParsedFiles }

\* Papa.parse completes with the rows of out.data
ParseComplete ==
  /\ load = "pending"
  /\ out.op = "parsed"
  /\ Commit(loadComplete(Page, out.data))
  /\ load' = "complete"
  /\ lastEvent' = Event("load", "")
  /\ UNCHANGED out

LoadNext == ParseComplete

SpecLoad == LoadInit /\ [][LoadNext]_vars

(***************************************************************************)
(* Claims about the load: ids, order and groups.                           *)
(***************************************************************************)
\* the file has been parsed and its load has completed
FileLoaded == load = "complete" /\ out.op = "parsed"

\* a record without the id the load gave it
WithoutId(r) == [f \in DOMAIN r \ {"id"} |-> r[f]]

\* the line of the file a record came from
LineOf(r) == Len(r.RestaurantName)

\* the Neighborhood of a record in lower case, empty when the column is absent
FoldedNeighborhood(r) ==
  toLowerCase(IF "Neighborhood" \in DOMAIN r THEN r.Neighborhood ELSE <<>>)

\* C11: a load of N parsed rows leaves N records whose ids are 0..N-1, each
\* once, the id of a record being its position in the sorted sequence.
C11_IdsArePositions ==
  FileLoaded =>
    /\ Len(allRestaurants) = Len(out.data)
    /\ \A i \in 1..Len(allRestaurants) : allRestaurants[i].id = i - 1
    /\ { allRestaurants[i].id : i \in 1..Len(allRestaurants) } = 0..(Len(out.data) - 1)
    /\ \A i, j \in 1..Len(allRestaurants) :
         allRestaurants[i].id = allRestaurants[j].id => i = j

\* C11 witness: a file of three rows that the sort reorders has been loaded.
C11_Witness ==
  /\ FileLoaded
  /\ Len(allRestaurants) = 3
  /\ LineOf(allRestaurants[1]) = 3
  /\ allRestaurants[1].id = 0 /\ allRestaurants[3].id = 2

\* C12: the loaded records are the rows of the file ordered by Neighborhood
\* compared without case (an absent one as empty), and rows whose
\* Neighborhoods are equal without case keep their order in the file.
C12_StableCaseInsensitiveSort ==
  FileLoaded =>
    /\ { WithoutId(allRestaurants[i]) : i \in 1..Len(allRestaurants) }
         = { out.data[i] : i \in 1..Len(out.data) }
    /\ Len(allRestaurants) = Len(out.data)
    /\ \A i, j \in 1..Len(allRestaurants) :
         i < j =>
           LET c == localeCompare(FoldedNeighborhood(allRestaurants[i]),
                                  FoldedNeighborhood(allRestaurants[j]))
           IN  /\ c <= 0
               /\ c = 0 => LineOf(allRestaurants[i]) < LineOf(allRestaurants[j])

\* C12 witness: the file "B", "b", "a" has been loaded as "a", "B", "b".
C12_Witness ==
  /\ FileLoaded
  /\ Len(out.data) = 3
  /\ [i \in 1..3 |-> Get(out.data[i], "Neighborhood")] = << <<"B">>, <<"b">>, <<"a">> >>
  /\ [i \in 1..3 |-> Get(allRestaurants[i], "Neighborhood")] = << <<"a">>, <<"B">>, <<"b">> >>
  /\ [i \in 1..3 |-> LineOf(allRestaurants[i])] = <<3, 1, 2>>

\* the key the specification gives a record: its trimmed Neighborhood, or
\* 'Uncategorized' when that is empty or the column is absent
SpecifiedKey(r) ==
  IF "Neighborhood" \in DOMAIN r /\ trim(r.Neighborhood) # <<>>
    THEN trim(r.Neighborhood)
    ELSE <<"Uncategorized">>

\* the sections that list the record among their members
SectionsOf(id) ==
  { i \in 1..Len(sections) :
      \E j \in 1..Len(sections[i].members) : sections[i].members[j] = id }

\* C13: every record is grouped under its trimmed Neighborhood, or under
\* 'Uncategorized' when the trimmed value is empty or the column is absent; no
\* group has the empty key.
C13_GroupKeyNeverEmpty ==
  FileLoaded =>
    /\ \A i \in 1..Len(sections) : sections[i].key # <<>>
    /\ \A r \in Rows : \A i \in SectionsOf(r.id) : sections[i].key = SpecifiedKey(r)

RECURSIVE MembersFrom(_)
\* the member lists of the sections from the i-th on, concatenated
MembersFrom(i) ==
  IF i > Len(sections) THEN <<>> ELSE sections[i].members \o MembersFrom(i + 1)

\* C14: the member lists of the groups, concatenated in the order the groups
\* are iterated, are the loaded records in their order, and every record is in
\* exactly one group.
C14_GroupsPartitionInOrder ==
  FileLoaded =>
    /\ MembersFrom(1) = [i \in 1..Len(allRestaurants) |-> allRestaurants[i].id]
    /\ \A r \in Rows : Cardinality(SectionsOf(r.id)) = 1

\* the position of the first record of the group key
FirstSeen(key) ==
  CHOOSE i \in 1..Len(allRestaurants) :
    /\ groupKey(allRestaurants[i]) = key
    /\ \A j \in 1..(i - 1) : groupKey(allRestaurants[j]) # key

\* C15: the groups are rendered in the order in which their keys are first
\* seen in the sorted records, and that order is the alphabetical order of
\* the keys compared without case.
C15_GroupsFirstSeenAlphabetical ==
  FileLoaded =>
    \A i, j \in 1..Len(sections) :
      i < j =>
        /\ FirstSeen(sections[i].key) < FirstSeen(sections[j].key)
        /\ localeCompare(toLowerCase(sections[i].key),
                         toLowerCase(sections[j].key)) <= 0

HasAddress(r) ==
  /\ r.MapsURL.given
  /\ r.MapsURL.parses
  /\ r.MapsURL.q # Undefined /\ r.MapsURL.q # <<>>

\* C17: a record whose MapsURL is absent, does not parse or has no q parameter
\* has a card, and in no reachable state a geocode request in flight or a
\* marker.
C17_NoAddressNoMarker ==
  Loaded =>
    \A r \in Rows :
      ~HasAddress(r) =>
        /\ r.id \in DOMAIN cards
        /\ pendingOf(Page, r.id) = 0
        /\ ~markerOf(Page, r.id).exists

\* C17 witness: a record whose MapsURL does not parse has a card and no
\* marker, while the record next to it has got its marker.
C17_Witness ==
  /\ Loaded
  /\ \E r, q \in Rows :
       /\ r.MapsURL.given /\ ~r.MapsURL.parses
       /\ CardDisplayed(r.id)
       /\ ~markerOf(Page, r.id).exists
       /\ HasAddress(q) /\ markerOf(Page, q.id).exists

\* C18: a geocode request answered without a location makes no marker and
\* changes no marker, card, section or slide of any record.
C18_GeocodeFailureIsLocal ==
  [][\A id \in DOMAIN geocoding :
       GeocodeAnswered(id, FALSE) =>
         UNCHANGED <<markerMap, cards, sections, slidesData, allRestaurants>>]_vars

\* C18 witness: a record with an address has no request in flight and no
\* marker: its request was answered without a location.
C18_Witness ==
  /\ Loaded
  /\ \E r \in Rows :
       /\ HasAddress(r)
       /\ pendingOf(Page, r.id) = 0
       /\ ~markerOf(Page, r.id).exists
       /\ CardDisplayed(r.id)

\* C19: in mobile mode a change of the filter leaves as slides exactly the
\* loaded records that isRestaurantVisible shows under the new filter, in
\* record order.
C19_SlidesAreVisibleRecords ==
  [][((ToggleHappeningNow \/ ClickDayButton) /\ innerWidth <= MobileMax) =>
       LET shown == { i \in 1..Len(allRestaurants') :
                        isRestaurantVisible(allRestaurants'[i], checked', active', today') }
       IN  /\ { slidesData'[k] : k \in 1..Len(slidesData') }
                = { allRestaurants'[i].id : i \in shown }
           /\ Len(slidesData') = Cardinality(shown)
           /\ \A k, l \in 1..Len(slidesData') :
                k < l => slidesData'[k] < slidesData'[l]]_vars

\* C19 witness: in mobile mode a click on a weekday button has left one of two
\* records as the only slide.
C19_Witness ==
  /\ innerWidth <= MobileMax
  /\ AfterWeekdayClick
  /\ Len(allRestaurants) = 2
  /\ \E r \in Rows : slidesData = <<r.id>> /\ VisibleNow(r)
  /\ \E r \in Rows : ~VisibleNow(r)

AwaitingMarker(id) == pendingOf(Page, id) > 0 /\ ~markerOf(Page, id).exists

\* C21: a change of the filter, a selection or a click on a neighborhood
\* header that happens while a record's geocode request is in flight and its
\* marker does not exist leaves that record without a marker and leaves its
\* requests in flight, so the marker can still be made when they are answered.
C21_PendingMarkerTolerated ==
  [][(ToggleHappeningNow \/ ClickDayButton \/ CardClick \/ MarkerClick
        \/ HeaderClick \/ TouchEnd) =>
       \A id \in Ids(allRestaurants) :
         AwaitingMarker(id) =>
           /\ id \in DOMAIN markerMap' => ~markerMap'[id].exists
           /\ id \in DOMAIN geocoding' /\ geocoding'[id] >= geocoding[id]]_vars

\* C21 witness: a record was selected while its geocode request is in flight
\* and it has no marker.
C21_Witness ==
  /\ lastEvent.op = "select"
  /\ AwaitingMarker(lastEvent.id)


C23_AbsentFieldsTolerated ==
  out.op = "evaluated" =>
    /\ ~out.threw
    /\ \A t \in 1..5 :
         weekdayKeys[t] \notin DOMAIN allRestaurants[1] =>
           /\ out.visible =
                isRestaurantVisible((weekdayKeys[t] :> <<>>) @@ allRestaurants[1],
                                    checked, active, today)
           /\ OnlyDayInEffect(t) => ~out.visible

C23_Witness ==
  /\ out.op = "evaluated"
  /\ ~out.threw
  /\ "Mon" \notin DOMAIN allRestaurants[1]
  /\ "Neighborhood" \notin DOMAIN allRestaurants[1]
  /\ "MapsURL" \notin DOMAIN allRestaurants[1]
  /\ Get(allRestaurants[1], "Tue") = yes
  /\ ~checked
  /\ active = {"mon"}
  /\ ~out.visible

\* C24: in every reachable state each marker of the id-to-marker association
\* is on the map iff its record passes the current filter.
C24_MarkersFollowFilter ==
  Loaded =>
    \A id \in DOMAIN markerMap :
      markerMap[id].exists =>
        (markerMap[id].onMap <=> VisibleNow(findById(allRestaurants, id)))

\* C25: no record ever has more than one geocode request issued, nor a request
\* in flight once its marker exists, so no second marker is made for an id.
C25_OneRequestPerRecord ==
  \A id \in Ids(allRestaurants) :
    /\ pendingOf(Page, id) <= 1
    /\ markerOf(Page, id).exists => pendingOf(Page, id) = 0

\* C26: on a Monday..Friday that does not end, happening-now is checked iff
\* the active weekdays are exactly today's, so the active weekdays alone
\* decide which records are visible.
C26_ToggleMirrorsTodayOnly ==
  today \in 1..5 =>
    /\ checked <=> (ActiveWeekdays = {days[today + 1]})
    /\ \A r \in Rows : VisibleNow(r) <=> isRestaurantVisible(r, FALSE, active, today)

\* C26 witness: on a Monday a click on the Monday button has checked
\* happening-now, and a record without a Monday deal is hidden.
C26_Witness ==
  /\ today = 1 /\ checked /\ active = {"mon"}
  /\ lastEvent.op = "click" /\ lastEvent.arg = "mon"
  /\ \E r \in Rows : ~VisibleNow(r) /\ r.id \in DOMAIN cards /\ cards[r.id] = "none"

\* C27: the carousel's index is never negative and is below the number of
\* slides whenever there are slides.
C27_SlideIndexInRange ==
  /\ currentSlideIndex >= 0
  /\ slidesData # <<>> => currentSlideIndex < Len(slidesData)

\* C28: whenever the load has completed and the width is at most 800, the
\* slides are the records visible under the current filter, in record order.
C28_SlidesCurrentInMobile ==
  (Loaded /\ innerWidth <= MobileMax) =>
    LET visible == SelectSeq(allRestaurants, VisibleNow) IN
      slidesData = [i \in 1..Len(visible) |-> visible[i].id]

\* C29: after a selection, the marker of the record selected last, if it
\* exists, has opacity 1 and every other marker has opacity 0.3.
C29_SelectionHighlightKept ==
  lastEvent.op = "select" =>
    \A id \in DOMAIN markerMap :
      markerMap[id].exists =>
        markerMap[id].opacity = IF id = lastEvent.id THEN 10 ELSE 3

\* C30: in the always-desktop revision, once the load has completed, a card
\* is displayed iff its record passes the current filter, and a record's
\* marker, if it exists, is on the map iff the card is displayed, whatever
\* filter changes and resizes came before.
C30_ResizeKeepsFilter ==
  Loaded =>
    \A r \in Rows :
      /\ CardDisplayed(r.id) <=> VisibleNow(r)
      /\ markerOf(Page, r.id).exists =>
           (markerOf(Page, r.id).onMap <=> CardDisplayed(r.id))

====
